---- MODULE Spec2Model ----
(***************************************************************************)
(* Model of Ai_Brochure.py: the brochure pipeline                          *)
(*   fetch landing page -> select links (LLM, JSON) -> fetch sub-pages     *)
(*   -> build prompt (truncated) -> brochure LLM call -> display/stream.   *)
(*                                                                         *)
(* Text is modelled as a sequence of one-character strings wherever the    *)
(* code inspects characters (fence stripping, JSON parsing, URL prefixes,  *)
(* the streaming clean-up), and by its length where the code only          *)
(* concatenates and slices it (page contents, the prompt).                 *)
(***************************************************************************)
EXTENDS Integers, Sequences, FiniteSets, TLC

VARIABLES
    pc,        \* position of the running call
    mode,      \* "create" (create_brochure), "stream" (stream_brochure), "links" (get_relevant_links alone)
    url,       \* the root URL handed to the call
    reply,     \* response['message']['content'] of the link-selection call, with how it was built
    content,   \* get_relevant_links: the local `content` after normalisation
    links,     \* the list returned by get_relevant_links
    idx,       \* get_all_website_details: position of the for loop in `links`
    result,    \* get_all_website_details: the sections of `result`, in order
    fetched,   \* every URL an HTTP GET was issued for, in order
    events,    \* the external calls made so far, in order
    cause,     \* the call whose exception left the operation, "" while none
    prompt,    \* length of the user prompt handed to the brochure model
    response,  \* stream_brochure: the local `response`
    chunks,    \* stream_brochure: the fragments the stream has yielded, in order
    shown,     \* every text handed to the display, in order
    ret        \* stream_brochure: the value returned

vars == <<pc, mode, url, reply, content, links, idx, result, fetched, events,
          cause, prompt, response, chunks, shown, ret>>

(***************************************************************************)
(* Bounds of the model.                                                    *)
(***************************************************************************)
MaxEntries == 2
MaxChunks == 3

(***************************************************************************)
(* Character-level text helpers (Python str methods).                      *)
(***************************************************************************)
StartsWith(s, p) ==
    Len(s) >= Len(p) /\ SubSeq(s, 1, Len(p)) = p

\* s[n:]
DropPrefix(s, n) ==
    SubSeq(s, n + 1, Len(s))

RECURSIVE LStrip(_, _)
LStrip(s, cs) ==
    IF s # <<>> /\ Head(s) \in cs THEN LStrip(Tail(s), cs) ELSE s

RECURSIVE RStrip(_, _)
RStrip(s, cs) ==
    IF s # <<>> /\ s[Len(s)] \in cs THEN RStrip(SubSeq(s, 1, Len(s) - 1), cs) ELSE s

\* s.strip(cs)
Strip(s, cs) ==
    RStrip(LStrip(s, cs), cs)

\* the characters str.strip() removes when called without an argument
PyWhitespace == {" ", "\n", "\t", "\r"}

\* the backtick character (a string literal of the language cannot hold it)
BT == "<backtick>"

\* the characters the fence branches hand to strip: backtick, space, newline
FenceStripChars == {BT, " ", "\n"}

Fence == <<BT, BT, BT>>
FenceJson == <<BT, BT, BT, "j", "s", "o", "n">>

RECURSIVE Contains(_, _)
Contains(s, p) ==
    IF Len(s) < Len(p) THEN FALSE
    ELSE IF StartsWith(s, p) THEN TRUE
    ELSE Contains(Tail(s), p)

\* s.replace(p, ""): the non-overlapping occurrences of p, found left to right, removed
RECURSIVE Remove(_, _)
Remove(s, p) ==
    IF s = <<>> THEN <<>>
    ELSE IF StartsWith(s, p) THEN Remove(DropPrefix(s, Len(p)), p)
    ELSE <<Head(s)>> \o Remove(Tail(s), p)

(***************************************************************************)
(* JSON values as Python holds them after json.loads.  Every value is a    *)
(* record of the same shape: t is the type, s the characters of a string   *)
(* or the digits of a number, keys/items the members of a dict in          *)
(* insertion order, items the elements of a list.                          *)
(***************************************************************************)
JVal(t, s, keys, items) == [t |-> t, s |-> s, keys |-> keys, items |-> items]
JNull == JVal("null", <<>>, <<>>, <<>>)
JTrue == JVal("true", <<>>, <<>>, <<>>)
JFalse == JVal("false", <<>>, <<>>, <<>>)
JStr(s) == JVal("str", s, <<>>, <<>>)
JNum(d) == JVal("num", d, <<>>, <<>>)
JArr(items) == JVal("arr", <<>>, <<>>, items)
JObj(keys, items) == JVal("obj", <<>>, keys, items)

\* Python truth value of a JSON value (what `or` tests)
Truthy(v) ==
    CASE v.t = "null" -> FALSE
      [] v.t = "false" -> FALSE
      [] v.t = "true" -> TRUE
      [] v.t = "str" -> v.s # <<>>
      [] v.t = "num" -> \E i \in 1..Len(v.s) : v.s[i] # "0"
      [] v.t = "arr" -> v.items # <<>>
      [] v.t = "obj" -> v.keys # <<>>

HasKey(obj, k) ==
    \E i \in 1..Len(obj.keys) : obj.keys[i] = k

KeyIndex(obj, k) ==
    CHOOSE i \in 1..Len(obj.keys) : obj.keys[i] = k

\* dict.get(k, default)
DictGet(obj, k, default) ==
    IF HasKey(obj, k) THEN obj.items[KeyIndex(obj, k)] ELSE default

\* d[k] = v while decoding: a repeated key keeps its first position and takes the last value
DictSet(obj, k, v) ==
    IF HasKey(obj, k)
    THEN JObj(obj.keys, [obj.items EXCEPT ![KeyIndex(obj, k)] = v])
    ELSE JObj(Append(obj.keys, k), Append(obj.items, v))

(***************************************************************************)
(* json.loads, by recursive descent over the characters.  Strings carry    *)
(* no escape sequences and numbers are unsigned integers: the responses    *)
(* enumerated below use no others.                                         *)
(***************************************************************************)
JsonWs == {" ", "\n", "\t", "\r"}
Digits == {"0", "1", "2", "3", "4", "5", "6", "7", "8", "9"}
LitTrue == <<"t", "r", "u", "e">>
LitFalse == <<"f", "a", "l", "s", "e">>
LitNull == <<"n", "u", "l", "l">>

ParseFail == [ok |-> FALSE, v |-> JNull, pos |-> 0]
ParseOk(v, pos) == [ok |-> TRUE, v |-> v, pos |-> pos]

RECURSIVE SkipWs(_, _)
SkipWs(s, i) ==
    IF i <= Len(s) /\ s[i] \in JsonWs THEN SkipWs(s, i + 1) ELSE i

\* s[i] is the opening quote; the value ends at the next quote
RECURSIVE ScanString(_, _, _)
ScanString(s, j, acc) ==
    IF j > Len(s) THEN ParseFail
    ELSE IF s[j] = "\"" THEN ParseOk(JStr(acc), j + 1)
    ELSE IF s[j] \in {"\n", "\t", "\r", "\\"} THEN ParseFail
    ELSE ScanString(s, j + 1, Append(acc, s[j]))

RECURSIVE ScanDigits(_, _)
ScanDigits(s, j) ==
    IF j <= Len(s) /\ s[j] \in Digits THEN ScanDigits(s, j + 1) ELSE j

ParseNumber(s, i) ==
    LET j == IF s[i] = "0" THEN i + 1 ELSE ScanDigits(s, i)
    IN  ParseOk(JNum(SubSeq(s, i, j - 1)), j)

ParseLiteral(s, i) ==
    LET rest == DropPrefix(s, i - 1)
    IN  IF StartsWith(rest, LitTrue) THEN ParseOk(JTrue, i + 4)
        ELSE IF StartsWith(rest, LitFalse) THEN ParseOk(JFalse, i + 5)
        ELSE IF StartsWith(rest, LitNull) THEN ParseOk(JNull, i + 4)
        ELSE ParseFail

RECURSIVE ParseValue(_, _)
RECURSIVE ParseElements(_, _, _)
RECURSIVE ParseMembers(_, _, _)

\* a value starting at s[i] (white space already skipped)
ParseValue(s, i) ==
    IF i > Len(s) THEN ParseFail
    ELSE IF s[i] = "\"" THEN ScanString(s, i + 1, <<>>)
    ELSE IF s[i] \in Digits THEN ParseNumber(s, i)
    ELSE IF s[i] = "[" THEN
        LET j == SkipWs(s, i + 1)
        IN  IF j <= Len(s) /\ s[j] = "]" THEN ParseOk(JArr(<<>>), j + 1)
            ELSE ParseElements(s, j, <<>>)
    ELSE IF s[i] = "{" THEN
        LET j == SkipWs(s, i + 1)
        IN  IF j <= Len(s) /\ s[j] = "}" THEN ParseOk(JObj(<<>>, <<>>), j + 1)
            ELSE ParseMembers(s, j, JObj(<<>>, <<>>))
    ELSE ParseLiteral(s, i)

\* the elements of a list from s[i] on, acc the ones decoded so far
ParseElements(s, i, acc) ==
    LET r == ParseValue(s, i)
        j == SkipWs(s, r.pos)
    IN  IF ~r.ok \/ j > Len(s) THEN ParseFail
        ELSE IF s[j] = "," THEN ParseElements(s, SkipWs(s, j + 1), Append(acc, r.v))
        ELSE IF s[j] = "]" THEN ParseOk(JArr(Append(acc, r.v)), j + 1)
        ELSE ParseFail

\* the members of a dict from s[i] on, obj the ones decoded so far
ParseMembers(s, i, obj) ==
    IF i > Len(s) \/ s[i] # "\"" THEN ParseFail
    ELSE
        LET k == ScanString(s, i + 1, <<>>)
            c == SkipWs(s, k.pos)
            r == ParseValue(s, SkipWs(s, c + 1))
            j == SkipWs(s, r.pos)
        IN  IF ~k.ok \/ c > Len(s) THEN ParseFail
            ELSE IF s[c] # ":" THEN ParseFail
            ELSE IF ~r.ok \/ j > Len(s) THEN ParseFail
            ELSE IF s[j] = "," THEN ParseMembers(s, SkipWs(s, j + 1), DictSet(obj, k.v.s, r.v))
            ELSE IF s[j] = "}" THEN ParseOk(DictSet(obj, k.v.s, r.v), j + 1)
            ELSE ParseFail

\* json.loads(s): ok is FALSE where it raises JSONDecodeError
Loads(s) ==
    LET r == ParseValue(s, SkipWs(s, 1))
    IN  IF r.ok /\ SkipWs(s, r.pos) = Len(s) + 1 THEN r ELSE ParseFail

(***************************************************************************)
(* get_relevant_links, after the chat call: normalisation and extraction.  *)
(***************************************************************************)
LinksKey == <<"l", "i", "n", "k", "s">>
UrlKey == <<"u", "r", "l">>

\* variant: the json-tagged branch missing, every fence treated as a bare one
NormalizeBareOnly(raw) ==
    LET stripped == Strip(raw, PyWhitespace)
    IN  IF StartsWith(stripped, Fence)
        THEN Strip(DropPrefix(stripped, 3), FenceStripChars)
        ELSE stripped

\* lines 95-99: content after strip and fence removal
Normalize(raw) ==
    LET stripped == Strip(raw, PyWhitespace)
    IN  IF StartsWith(stripped, FenceJson)
        THEN Strip(DropPrefix(stripped, 7), FenceStripChars)
        ELSE IF StartsWith(stripped, Fence)
        THEN Strip(DropPrefix(stripped, 3), FenceStripChars)
        ELSE stripped

\* whether `for item in v` can start
Iterable(v) ==
    v.t \in {"arr", "str", "obj"}

\* what `for item in v` yields: list elements, the characters of a str, the keys of a dict
IterItems(v) ==
    CASE v.t = "arr" -> v.items
      [] v.t = "str" -> [i \in 1..Len(v.s) |-> JStr(<<v.s[i]>>)]
      [] v.t = "obj" -> [i \in 1..Len(v.keys) |-> JStr(v.keys[i])]

NoExc == ""

\* item.get("url") or list(item.values())[0]
ItemUrl(item) ==
    IF item.t # "obj" THEN [exc |-> "AttributeError", v |-> JNull]
    ELSE
        LET u == DictGet(item, UrlKey, JNull)
        IN  IF Truthy(u) THEN [exc |-> NoExc, v |-> u]
            ELSE IF item.items = <<>> THEN [exc |-> "IndexError", v |-> JNull]
            ELSE [exc |-> NoExc, v |-> item.items[1]]

\* the list comprehension of line 103 over the items its
Comprehension(its) ==
    IF \E i \in 1..Len(its) : ItemUrl(its[i]).exc # NoExc
    THEN [exc |-> ItemUrl(its[CHOOSE i \in 1..Len(its) :
                                /\ ItemUrl(its[i]).exc # NoExc
                                /\ \A j \in 1..(i - 1) : ItemUrl(its[j]).exc = NoExc]).exc,
          links |-> <<>>]
    ELSE [exc |-> NoExc, links |-> [i \in 1..Len(its) |-> ItemUrl(its[i]).v]]

\* lines 102-103, the body of the try: exc names the exception it raises, NoExc when none
TryBody(c) ==
    LET r == Loads(c)
    IN  IF ~r.ok THEN [exc |-> "JSONDecodeError", links |-> <<>>]
        ELSE IF r.v.t # "obj" THEN [exc |-> "AttributeError", links |-> <<>>]
        ELSE
            LET lv == DictGet(r.v, LinksKey, JArr(<<>>))
            IN  IF ~Iterable(lv) THEN [exc |-> "TypeError", links |-> <<>>]
                ELSE Comprehension(IterItems(lv))

\* variant: an except clause that names json.JSONDecodeError alone
CatchesDecodeOnly(exc) ==
    exc = "JSONDecodeError"

\* line 104: `except Exception` handles every exception the body raises
Catches(exc) ==
    exc # NoExc

(***************************************************************************)
(* The responses of the link-selection model that the model enumerates,    *)
(* written in the format of LINK_SYSTEM_PROMPT by a serialiser.            *)
(***************************************************************************)
Quote(s) ==
    <<"\"">> \o s \o <<"\"">>

RECURSIVE Dumps(_)
RECURSIVE DumpsItems(_, _)
RECURSIVE DumpsMembers(_, _)

Dumps(v) ==
    CASE v.t = "str" -> Quote(v.s)
      [] v.t = "num" -> v.s
      [] v.t = "null" -> LitNull
      [] v.t = "true" -> LitTrue
      [] v.t = "false" -> LitFalse
      [] v.t = "arr" -> <<"[">> \o DumpsItems(v.items, 1) \o <<"]">>
      [] v.t = "obj" -> <<"{">> \o DumpsMembers(v, 1) \o <<"}">>

DumpsItems(items, i) ==
    IF i > Len(items) THEN <<>>
    ELSE Dumps(items[i])
         \o (IF i < Len(items) THEN <<",", " ">> ELSE <<>>)
         \o DumpsItems(items, i + 1)

DumpsMembers(obj, i) ==
    IF i > Len(obj.keys) THEN <<>>
    ELSE Quote(obj.keys[i]) \o <<":", " ">> \o Dumps(obj.items[i])
         \o (IF i < Len(obj.keys) THEN <<",", " ">> ELSE <<>>)
         \o DumpsMembers(obj, i + 1)

TypeKey == <<"t", "y", "p", "e">>
HrefKey == <<"h", "r", "e", "f">>
TAbout == <<"a", "b", "o", "u", "t">>
TJobs == <<"j", "o", "b", "s">>
LAbout == <<"/", "a", "b", "o", "u", "t">>
LCareers == <<"c", "a", "r", "e", "e", "r", "s", ".", "h", "t", "m", "l">>
LJobs == <<"/", "j", "o", "b", "s">>

\* an entry as the system prompt shows it
Entry(type, u) ==
    JObj(<<TypeKey, UrlKey>>, <<JStr(type), u>>)

EntryChoices ==
    { Entry(TAbout, JStr(LAbout)),
      JObj(<<UrlKey>>, <<JStr(LCareers)>>),
      Entry(TAbout, JStr(<<>>)),
      JObj(<<UrlKey, TypeKey>>, <<JStr(<<>>), JStr(TJobs)>>),
      JObj(<<TypeKey, HrefKey>>, <<JStr(TJobs), JStr(LJobs)>>),
      Entry(TAbout, JNull),
      JObj(<<UrlKey>>, <<JNum(<<"5">>)>>) }

EntrySeqs ==
    UNION {[1..n -> EntryChoices] : n \in 0..MaxEntries}

LinksDoc(v) ==
    JObj(<<LinksKey>>, <<v>>)

Doc(kind, entries, body) ==
    [kind |-> kind, entries |-> entries, body |-> body]

WellFormedDocs ==
    {Doc("wellformed", es, Dumps(LinksDoc(JArr(es)))) : es \in EntrySeqs}

TruncatedBody ==
    LET full == Dumps(LinksDoc(JArr(<<Entry(TAbout, JStr(LAbout))>>)))
    IN  SubSeq(full, 1, Len(full) - 2)

MalformedDocs ==
    { Doc("notjson", <<>>, TruncatedBody),
      Doc("notjson", <<>>, <<"S", "u", "r", "e", "!">>),
      Doc("notjson", <<>>, <<>>),
      Doc("notobject", <<>>, Dumps(JArr(<<JStr(LAbout)>>))),
      Doc("notobject", <<>>, Dumps(JStr(LAbout))),
      Doc("notobject", <<>>, Dumps(JNull)),
      Doc("linksnotlist", <<>>, Dumps(LinksDoc(JStr(LAbout)))),
      Doc("linksnotlist", <<>>, Dumps(LinksDoc(JNum(<<"5">>)))),
      Doc("linksnotlist", <<>>, Dumps(LinksDoc(JNull))),
      Doc("linksnotlist", <<>>, Dumps(LinksDoc(JArr(<<JStr(LAbout)>>)))),
      Doc("linksnotlist", <<>>, Dumps(LinksDoc(JObj(<<TAbout>>, <<JStr(LAbout)>>)))),
      Doc("emptyentry", <<>>, Dumps(LinksDoc(JArr(<<JObj(<<>>, <<>>)>>)))),
      Doc("emptyentry", <<>>,
          Dumps(LinksDoc(JArr(<<Entry(TAbout, JStr(LAbout)), JObj(<<>>, <<>>)>>)))) }

MalformedKinds == {"notjson", "notobject", "linksnotlist", "emptyentry"}

\* a well-formed object that names no links
OtherDocs ==
    {Doc("nolinkskey", <<>>, Dumps(JObj(<<>>, <<>>)))}

TagJson == <<"j", "s", "o", "n">>
TagUpper == <<"J", "S", "O", "N">>
TagText == <<"t", "e", "x", "t">>

Wrapper(fenced, tag) ==
    [fenced |-> fenced, tag |-> tag]

Unwrapped == Wrapper(FALSE, <<>>)

Wrappers ==
    {Unwrapped} \cup {Wrapper(TRUE, t) : t \in {<<>>, TagJson, TagUpper, TagText}}

\* the body as a fenced code block opened with the tag, or as it is
Wrap(w, body) ==
    IF w.fenced THEN Fence \o w.tag \o <<"\n">> \o body \o <<"\n">> \o Fence
    ELSE body

Reply(d, w) ==
    [doc |-> d, wrapper |-> w, text |-> Wrap(w, d.body)]

NoReply == Reply(Doc("none", <<>>, <<>>), Unwrapped)

(***************************************************************************)
(* URLs: the prefix test of line 124 and requests.compat.urljoin for the   *)
(* link shapes enumerated below (no dot segments, query or fragment), the  *)
(* base being an http or https URL.                                        *)
(***************************************************************************)
HttpPrefix == <<"h", "t", "t", "p">>

Letters ==
    {"a", "b", "c", "d", "e", "f", "g", "h", "i", "j", "k", "l", "m",
     "n", "o", "p", "q", "r", "s", "t", "u", "v", "w", "x", "y", "z"}

SchemeChars == Letters \cup Digits \cup {"+", "-", "."}

\* the first position >= from where s holds c, 0 when there is none
RECURSIVE IndexOf(_, _, _)
IndexOf(s, c, from) ==
    IF from > Len(s) THEN 0
    ELSE IF s[from] = c THEN from
    ELSE IndexOf(s, c, from + 1)

\* the last position where s holds c, 0 when there is none
RECURSIVE LastIndexOf(_, _, _)
LastIndexOf(s, c, upto) ==
    IF upto < 1 THEN 0
    ELSE IF s[upto] = c THEN upto
    ELSE LastIndexOf(s, c, upto - 1)

\* urlsplit finds a scheme: a letter, then scheme characters, then a colon
HasScheme(u) ==
    LET i == IndexOf(u, ":", 1)
    IN  /\ i > 1
        /\ u[1] \in Letters
        /\ \A j \in 1..(i - 1) : u[j] \in SchemeChars

\* scheme://netloc of an http(s) URL, and its path
PathStart(base) ==
    IndexOf(base, "/", IndexOf(base, ":", 1) + 3)

BaseOrigin(base) ==
    IF PathStart(base) = 0 THEN base ELSE SubSeq(base, 1, PathStart(base) - 1)

BasePath(base) ==
    IF PathStart(base) = 0 THEN <<>> ELSE SubSeq(base, PathStart(base), Len(base))

\* the path up to its last slash
BaseDir(base) ==
    LET path == BasePath(base)
    IN  IF path = <<>> THEN <<"/">> ELSE SubSeq(path, 1, LastIndexOf(path, "/", Len(path)))

urljoin(base, link) ==
    IF link = <<>> THEN base
    ELSE IF HasScheme(link) THEN link
    ELSE IF StartsWith(link, <<"/", "/">>)
    THEN SubSeq(base, 1, IndexOf(base, ":", 1)) \o link
    ELSE IF Head(link) = "/" THEN BaseOrigin(base) \o link
    ELSE BaseOrigin(base) \o BaseDir(base) \o link

\* lines 124-125: the URL the loop fetches for a selected link
SubPageTarget(root, link) ==
    IF ~StartsWith(link, HttpPrefix) THEN urljoin(root, link) ELSE link

(***************************************************************************)
(* Text the code only concatenates and slices is held by its length.       *)
(***************************************************************************)
PromptLimit == 5000
LandingLabelLen == 14
TitleLabelLen == 15
ContentsLabelLen == 19
NoLinksNoteLen == 32
UrlLabelLen == 7
ErrorLabelLen == 32
CompanyIntroLen == 37
InstructionLen == 144

\* Website.get_contents
ContentsLen(page) ==
    TitleLabelLen + page.title + ContentsLabelLen + page.text + 1

Section(kind, u, len) ==
    [kind |-> kind, url |-> u, len |-> len]

\* line 116
LandingSection(root, page) ==
    Section("landing", root, LandingLabelLen + ContentsLen(page))

\* line 120
NoLinksNote ==
    Section("nolinks", <<>>, NoLinksNoteLen)

\* line 127
PageSection(target, page) ==
    Section("page", target, UrlLabelLen + Len(target) + 1 + ContentsLen(page))

\* line 129
ErrorNote(target, errLen) ==
    Section("error", target, ErrorLabelLen + Len(target) + 2 + errLen + 1)

RECURSIVE TotalLen(_)
TotalLen(sections) ==
    IF sections = <<>> THEN 0 ELSE Head(sections).len + TotalLen(Tail(sections))

\* variant: the prompt returned without the slice
NoTruncate(n) ==
    n

\* prompt[:5000]
Truncate(n) ==
    IF n > PromptLimit THEN PromptLimit ELSE n

\* lines 145-149
PromptLen(nameLen, sections) ==
    Truncate(CompanyIntroLen + nameLen + 2 + InstructionLen + TotalLen(sections))

(***************************************************************************)
(* What the outside world may answer.                                      *)
(***************************************************************************)
Event(call, ok) ==
    [call |-> call, ok |-> ok]

\* the pages a fetch may yield: lengths of the title and of the cleaned text
Pages ==
    {[title |-> 14, text |-> 0], [title |-> 4, text |-> 5200]}

SubPages ==
    {[title |-> 5, text |-> 60], [title |-> 5, text |-> 5200]}

ErrLens == {40}

NameLens == {4, 5100}

Roots ==
    { <<"h", "t", "t", "p", "s", ":", "/", "/", "x", ".", "c", "o">>,
      <<"h", "t", "t", "p", ":", "/", "/", "x", ".", "c", "o", "/", "a", "/", "b">> }

LHost == <<"/", "/", "h", ".", "c", "o", "/", "a", "b", "o", "u", "t">>
LHttpInfo == <<"h", "t", "t", "p", "-", "i", "n", "f", "o", ".", "h", "t", "m", "l">>
LAbsolute == <<"h", "t", "t", "p", "s", ":", "/", "/", "x", ".", "c", "o", "/", "a", "b", "o", "u", "t">>
LMailto == <<"m", "a", "i", "l", "t", "o", ":", "a", "@", "x", ".", "c", "o">>

\* the entries the link-selection model answers with inside the pipeline
PipelineEntries ==
    {Entry(TAbout, JStr(l)) : l \in {LAbout, LCareers, LHost, LHttpInfo, LAbsolute, LMailto}}
        \cup {JObj(<<UrlKey>>, <<JNum(<<"5">>)>>)}

PipelineReplies ==
    {Reply(Doc("wellformed", es, Dumps(LinksDoc(JArr(es)))), Wrapper(TRUE, TagJson)) :
        es \in UNION {[1..n -> PipelineEntries] : n \in 0..MaxEntries}}
        \cup {Reply(Doc("notjson", <<>>, TruncatedBody), Unwrapped)}

\* requests.get raises before any transfer unless the URL opens with http:// or https://
Fetchable(u) ==
    \/ StartsWith(u, <<"h", "t", "t", "p", ":", "/", "/">>)
    \/ StartsWith(u, <<"h", "t", "t", "p", "s", ":", "/", "/">>)

\* variant: a page already fetched is not requested again
FetchedCached(log, u) ==
    IF \E i \in 1..Len(log) : log[i] = u THEN log ELSE Append(log, u)

\* the log of URLs handed to requests.get
Fetched(log, u) ==
    Append(log, u)

MarkdownWord == <<"m", "a", "r", "k", "d", "o", "w", "n">>

\* line 189
Cleaned(resp) ==
    Remove(Remove(resp, Fence), MarkdownWord)

\* variant: the cleaned text returned
StreamReturnCleaned(resp, cleaned) ==
    cleaned

\* line 192
StreamReturn(resp, cleaned) ==
    resp

\* the fragments a stream may yield
Fragments ==
    { <<>>, <<"#", " ", "A">>, <<BT>>, <<BT, BT>>, Fence, MarkdownWord,
      <<"m", "a", "r", "k">>, <<"d", "o", "w", "n">> }

PipelineFragments ==
    {<<"#", " ", "A">>}

(***************************************************************************)
(* The operations.                                                         *)
(***************************************************************************)
BrochureModes == {"create", "stream"}

Idle ==
    /\ reply = NoReply
    /\ content = <<>>
    /\ links = <<>>
    /\ idx = 1
    /\ result = <<>>
    /\ fetched = <<>>
    /\ events = <<>>
    /\ cause = ""
    /\ prompt = 0
    /\ response = <<>>
    /\ chunks = <<>>
    /\ shown = <<>>
    /\ ret = <<>>

\* create_brochure or stream_brochure is called
Init ==
    /\ pc = "start"
    /\ mode \in BrochureModes
    /\ url \in Roots
    /\ Idle

\* variant: the landing-page fetch guarded like a sub-page fetch
FetchLandingGuarded ==
    /\ pc = "start"
    /\ fetched' = Append(fetched, url)
    /\ \/ \E page \in Pages :
            /\ events' = Append(events, Event("landing_fetch", TRUE))
            /\ result' = <<LandingSection(url, page)>>
       \/ /\ events' = Append(events, Event("landing_fetch", FALSE))
          /\ result' = <<ErrorNote(url, 0)>>
    /\ pc' = "rl_fetch"
    /\ UNCHANGED <<mode, url, reply, content, links, idx, cause, prompt, response, chunks,
                   shown, ret>>

\* line 116: Website(url) in get_all_website_details
FetchLanding ==
    /\ pc = "start"
    /\ fetched' = Fetched(fetched, url)
    /\ \/ \E page \in Pages :
            /\ events' = Append(events, Event("landing_fetch", TRUE))
            /\ result' = <<LandingSection(url, page)>>
            /\ pc' = "rl_fetch"
            /\ UNCHANGED cause
       \/ /\ events' = Append(events, Event("landing_fetch", FALSE))
          /\ pc' = "raised"
          /\ cause' = "landing_fetch"
          /\ UNCHANGED result
    /\ UNCHANGED <<mode, url, reply, content, links, idx, prompt, response, chunks, shown, ret>>

\* line 85: Website(url) in get_relevant_links
RLFetch ==
    /\ pc = "rl_fetch"
    /\ fetched' = Fetched(fetched, url)
    /\ \/ /\ events' = Append(events, Event("selector_fetch", TRUE))
          /\ pc' = "rl_call"
          /\ UNCHANGED cause
       \/ /\ events' = Append(events, Event("selector_fetch", FALSE))
          /\ pc' = "raised"
          /\ cause' = "selector_fetch"
    /\ UNCHANGED <<mode, url, reply, content, links, idx, result, prompt, response, chunks, shown, ret>>

\* lines 87-93: the link-selection chat call, its answer drawn from R
RLChatFrom(R) ==
    /\ pc = "rl_call"
    /\ \/ \E r \in R :
            /\ events' = Append(events, Event("link_chat", TRUE))
            /\ reply' = r
            /\ pc' = "rl_chat"
            /\ UNCHANGED cause
       \/ /\ events' = Append(events, Event("link_chat", FALSE))
          /\ pc' = "raised"
          /\ cause' = "link_chat"
          /\ UNCHANGED reply
    /\ UNCHANGED <<mode, url, content, links, idx, result, fetched, prompt, response,
                   chunks, shown, ret>>

RLChat ==
    RLChatFrom(PipelineReplies)

AllReplies ==
    {Reply(d, w) : d \in WellFormedDocs \cup MalformedDocs \cup OtherDocs, w \in Wrappers}

RLChatAny ==
    RLChatFrom(AllReplies)

\* lines 95-99
RLNormalize ==
    /\ pc = "rl_chat"
    /\ content' = Normalize(reply.text)
    /\ pc' = "rl_parse"
    /\ UNCHANGED <<mode, url, reply, links, idx, result, fetched, events, cause, prompt,
                   response, chunks, shown, ret>>

\* lines 101-106
RLParse ==
    /\ pc = "rl_parse"
    /\ LET b == TryBody(content)
       IN  IF b.exc = NoExc
           THEN links' = b.links /\ pc' = "rl_returned" /\ UNCHANGED cause
           ELSE IF Catches(b.exc)
           THEN links' = <<>> /\ pc' = "rl_returned" /\ UNCHANGED cause
           ELSE pc' = "raised" /\ cause' = "parse" /\ UNCHANGED links
    /\ UNCHANGED <<mode, url, reply, content, idx, result, fetched, events, prompt,
                   response, chunks, shown, ret>>

\* lines 119-121
NoLinks ==
    /\ pc = "rl_returned"
    /\ mode \in BrochureModes
    /\ links = <<>>
    /\ result' = Append(result, NoLinksNote)
    /\ pc' = "aggregated"
    /\ UNCHANGED <<mode, url, reply, content, links, idx, fetched, events, cause, prompt,
                   response, chunks, shown, ret>>

\* variant: the sub-page fetch outside any try
SubFetchUncaught(res, target, errLen) ==
    [pc |-> "raised", cause |-> "sub_fetch", result |-> res]

\* lines 128-129: what a sub-page fetch that raised leaves behind
SubFetchFailed(res, target, errLen) ==
    [pc |-> "rl_returned", cause |-> "", result |-> Append(res, ErrorNote(target, errLen))]

\* lines 123-129: one round of the loop
LoopStep ==
    /\ pc = "rl_returned"
    /\ mode \in BrochureModes
    /\ idx <= Len(links)
    /\ IF links[idx].t # "str"
       THEN /\ pc' = "raised"
            /\ cause' = "link_type"
            /\ UNCHANGED <<idx, result, fetched, events>>
       ELSE LET target == SubPageTarget(url, links[idx].s)
            IN  /\ fetched' = Fetched(fetched, target)
                /\ idx' = idx + 1
                /\ \/ /\ Fetchable(target)
                      /\ \E page \in SubPages :
                            /\ events' = Append(events, Event("sub_fetch", TRUE))
                            /\ result' = Append(result, PageSection(target, page))
                            /\ UNCHANGED <<pc, cause>>
                   \/ \E e \in ErrLens :
                        LET h == SubFetchFailed(result, target, e)
                        IN  /\ events' = Append(events, Event("sub_fetch", FALSE))
                            /\ result' = h.result
                            /\ pc' = h.pc
                            /\ cause' = h.cause
    /\ UNCHANGED <<mode, url, reply, content, links, prompt, response, chunks, shown, ret>>

\* line 131
LoopExit ==
    /\ pc = "rl_returned"
    /\ mode \in BrochureModes
    /\ links # <<>>
    /\ idx > Len(links)
    /\ pc' = "aggregated"
    /\ UNCHANGED <<mode, url, reply, content, links, idx, result, fetched, events, cause,
                   prompt, response, chunks, shown, ret>>

\* lines 145-149
BuildPrompt ==
    /\ pc = "aggregated"
    /\ \E n \in NameLens : prompt' = PromptLen(n, result)
    /\ pc' = "prompt_built"
    /\ UNCHANGED <<mode, url, reply, content, links, idx, result, fetched, events, cause,
                   response, chunks, shown, ret>>

\* lines 160-166 and 174-181: the brochure chat call
BrochureChat ==
    /\ pc = "prompt_built"
    /\ \/ /\ events' = Append(events, Event("brochure_chat", TRUE))
          /\ pc' = IF mode = "create" THEN "chat_returned" ELSE "stream_opened"
          /\ UNCHANGED cause
       \/ /\ events' = Append(events, Event("brochure_chat", FALSE))
          /\ pc' = "raised"
          /\ cause' = "brochure_chat"
    /\ UNCHANGED <<mode, url, reply, content, links, idx, result, fetched, prompt,
                   response, chunks, shown, ret>>

\* line 167
DisplayWhole ==
    /\ pc = "chat_returned"
    /\ \E text \in PipelineFragments : shown' = Append(shown, text)
    /\ events' = Append(events, Event("display", TRUE))
    /\ pc' = "done"
    /\ UNCHANGED <<mode, url, reply, content, links, idx, result, fetched, cause, prompt,
                   response, chunks, ret>>

\* lines 183-184
StreamStart ==
    /\ pc = "stream_opened"
    /\ response' = <<>>
    /\ shown' = Append(shown, <<>>)
    /\ events' = Append(events, Event("display", TRUE))
    /\ pc' = "streaming"
    /\ UNCHANGED <<mode, url, reply, content, links, idx, result, fetched, cause, prompt,
                   chunks, ret>>

\* lines 186-190: one fragment of the stream, drawn from F
StreamChunkFrom(F) ==
    /\ pc = "streaming"
    /\ Len(chunks) < MaxChunks
    /\ \E f \in F :
        /\ chunks' = Append(chunks, f)
        /\ response' = response \o f
        /\ shown' = Append(shown, Cleaned(response \o f))
    /\ events' = Append(events, Event("update", TRUE))
    /\ UNCHANGED <<pc, mode, url, reply, content, links, idx, result, fetched, cause,
                   prompt, ret>>

StreamChunk ==
    StreamChunkFrom(PipelineFragments)

StreamChunkAny ==
    StreamChunkFrom(Fragments)

\* line 186: the stream raises while it is read
StreamFail ==
    /\ pc = "streaming"
    /\ events' = Append(events, Event("brochure_stream", FALSE))
    /\ pc' = "raised"
    /\ cause' = "brochure_stream"
    /\ UNCHANGED <<mode, url, reply, content, links, idx, result, fetched, prompt,
                   response, chunks, shown, ret>>

\* line 192: the stream is exhausted
StreamEnd ==
    /\ pc = "streaming"
    /\ ret' = StreamReturn(response, Cleaned(response))
    /\ pc' = "done"
    /\ UNCHANGED <<mode, url, reply, content, links, idx, result, fetched, events, cause,
                   prompt, response, chunks, shown>>

Next ==
    \/ FetchLanding
    \/ RLFetch
    \/ RLChat
    \/ RLNormalize
    \/ RLParse
    \/ NoLinks
    \/ LoopStep
    \/ LoopExit
    \/ BuildPrompt
    \/ BrochureChat
    \/ DisplayWhole
    \/ StreamStart
    \/ StreamChunk
    \/ StreamFail
    \/ StreamEnd

Spec == Init /\ [][Next]_vars

(***************************************************************************)
(* get_relevant_links called on its own, over every enumerated response.   *)
(***************************************************************************)
RootA == <<"h", "t", "t", "p", "s", ":", "/", "/", "x", ".", "c", "o">>

InitLinks ==
    /\ pc = "rl_fetch"
    /\ mode = "links"
    /\ url = RootA
    /\ Idle

NextLinks ==
    \/ RLFetch
    \/ RLChatAny
    \/ RLNormalize
    \/ RLParse

SpecLinks == InitLinks /\ [][NextLinks]_vars

(***************************************************************************)
(* stream_brochure from the moment the brochure call has handed back its   *)
(* stream, over every enumerated sequence of fragments.  The state before  *)
(* is that of a run whose link selection found nothing.                    *)
(***************************************************************************)
StreamOpenedResult ==
    <<LandingSection(RootA, [title |-> 14, text |-> 0]), NoLinksNote>>

StreamOpenedReply ==
    Reply(Doc("notjson", <<>>, TruncatedBody), Unwrapped)

InitStream ==
    /\ pc = "stream_opened"
    /\ mode = "stream"
    /\ url = RootA
    /\ reply = StreamOpenedReply
    /\ content = Normalize(StreamOpenedReply.text)
    /\ links = <<>>
    /\ idx = 1
    /\ result = StreamOpenedResult
    /\ fetched = <<RootA, RootA>>
    /\ events = <<Event("landing_fetch", TRUE), Event("selector_fetch", TRUE),
                  Event("link_chat", TRUE), Event("brochure_chat", TRUE)>>
    /\ cause = ""
    /\ prompt = PromptLen(4, StreamOpenedResult)
    /\ response = <<>>
    /\ chunks = <<>>
    /\ shown = <<>>
    /\ ret = <<>>

NextStream ==
    \/ StreamStart
    \/ StreamChunkAny
    \/ StreamFail
    \/ StreamEnd

SpecStream == InitStream /\ [][NextStream]_vars

(***************************************************************************)
(* Properties.                                                             *)
(***************************************************************************)
HasEvent(call, ok) ==
    \E i \in 1..Len(events) : events[i] = Event(call, ok)

SubEvents ==
    SelectSeq(events, LAMBDA e : e.call = "sub_fetch")

\* get_all_website_details has returned
Aggregated ==
    pc \in {"aggregated", "prompt_built", "chat_returned", "stream_opened", "streaming", "done"}

\* get_all_website_details is in its loop or has returned
InOrPastLoop ==
    (pc = "rl_returned" /\ mode \in BrochureModes) \/ Aggregated

RECURSIVE Flatten(_)
Flatten(fs) ==
    IF fs = <<>> THEN <<>> ELSE Head(fs) \o Flatten(Tail(fs))

\* C1: a sub-page fetch that raises never leaves get_all_website_details: the
\* call goes on to the later links and returns, and the aggregate holds the
\* landing-page section, then for each link in order its section where the
\* fetch succeeded and exactly one error note where it raised.
C1_PartialFailure ==
    /\ pc = "raised" => cause # "sub_fetch"
    /\ (InOrPastLoop /\ links # <<>>) =>
            /\ Len(SubEvents) = idx - 1
            /\ Len(result) = idx
            /\ result[1].kind = "landing"
            /\ \A i \in 1..Len(SubEvents) :
                    /\ result[i + 1].kind = IF SubEvents[i].ok THEN "page" ELSE "error"
                    /\ result[i + 1].url = fetched[i + 2]
    /\ (Aggregated /\ links # <<>>) => Len(SubEvents) = Len(links)

\* a returned aggregate where a failed sub-page fetch is followed by a successful one
C1_Witness ==
    /\ pc = "aggregated"
    /\ Len(links) = 2
    /\ SubEvents = <<Event("sub_fetch", FALSE), Event("sub_fetch", TRUE)>>
    /\ result[2].kind = "error"
    /\ result[3].kind = "page"

PromptBuilt ==
    \/ pc \in {"prompt_built", "chat_returned", "stream_opened", "streaming", "done"}
    \/ pc = "raised" /\ cause \in {"brochure_chat", "brochure_stream"}

\* C2: the user prompt handed to the brochure model is at most 5000 characters
\* long in both modes, whatever the lengths of the name and of the pages.
C2_PromptBounded ==
    PromptBuilt => prompt <= PromptLimit

\* a prompt cut to the limit from an aggregate that alone exceeds it
C2_Witness ==
    /\ HasEvent("brochure_chat", TRUE)
    /\ TotalLen(result) > PromptLimit
    /\ prompt = PromptLimit

\* C3: on a malformed response (not JSON, JSON that is no object, a "links"
\* value that is no list of objects, an entry with no fields) get_relevant_links
\* returns the empty list and raises nothing.
C3_MalformedGivesEmpty ==
    reply.doc.kind \in MalformedKinds =>
        /\ pc # "raised"
        /\ pc = "rl_returned" => links = <<>>

\* the call has returned on a response whose entry has no fields
C3_Witness ==
    /\ pc = "rl_returned"
    /\ reply.doc.kind = "emptyentry"
    /\ links = <<>>

\* C4: on a well-formed response whose entries all carry a string "url",
\* get_relevant_links returns exactly those "url" values, in order.
C4_UrlOfEachEntry ==
    LET es == reply.doc.entries
    IN  (/\ pc = "rl_returned"
         /\ reply.doc.kind = "wellformed"
         /\ ~reply.wrapper.fenced
         /\ \A i \in 1..Len(es) : HasKey(es[i], UrlKey) /\ DictGet(es[i], UrlKey, JNull).t = "str")
        => /\ Len(links) = Len(es)
           /\ \A i \in 1..Len(es) : links[i] = DictGet(es[i], UrlKey, JNull)

\* what get_relevant_links returns on the text c
ReturnedFor(c) ==
    LET b == TryBody(Normalize(c))
    IN  IF b.exc = NoExc THEN b.links ELSE <<>>

\* C5 as written: a response wrapped in a fenced code block, whatever its
\* language tag, yields the same list as its content unwrapped.
C5_AnyTag ==
    (pc = "rl_returned" /\ reply.wrapper.fenced) => links = ReturnedFor(reply.doc.body)

\* C5 amended: a response wrapped in a fenced code block opened with the tag
\* json or with a bare fence yields the same list as its content unwrapped;
\* with another tag it yields the empty list.
C5_JsonOrBareFence ==
    (pc = "rl_returned" /\ reply.wrapper.fenced) =>
        IF reply.wrapper.tag \in {<<>>, TagJson}
        THEN links = ReturnedFor(reply.doc.body)
        ELSE links = <<>>

\* a json-fenced response from which links were extracted
C5_Witness ==
    /\ pc = "rl_returned"
    /\ reply.wrapper = Wrapper(TRUE, TagJson)
    /\ Len(links) = 2

\* C6 as written: stream_brochure returns the text of the last display update.
C6_ReturnsCleaned ==
    (pc = "done" /\ mode = "stream") => ret = shown[Len(shown)]

\* C6 amended: stream_brochure returns the raw concatenation of the fragments.
C6_ReturnsRaw ==
    (pc = "done" /\ mode = "stream") => ret = Flatten(chunks)

\* a return value that differs from the last text shown
C6_Witness ==
    /\ pc = "done"
    /\ mode = "stream"
    /\ Contains(ret, Fence)
    /\ ret # shown[Len(shown)]

\* the URLs fetched for the selected links, as the loop computes them
Targets ==
    [i \in 1..Len(links) |-> SubPageTarget(url, links[i].s)]

\* C7 as written: the fetches are the landing page once and each selected link
\* once, and the result is the landing section then one section per link.
C7_ExactFetches ==
    pc = "aggregated" =>
        /\ fetched = <<url>> \o Targets
        /\ Len(result) = Len(links) + 1
        /\ result[1].kind = "landing"
        /\ \A i \in 1..Len(links) :
                result[i + 1].kind = "page" /\ result[i + 1].url = Targets[i]

\* C7 amended: when the call returns, the fetches are the landing page twice
\* (lines 116 and 85) and then each selected link once, in order; the result is
\* the landing section, then per link its section or its error note, or the
\* no-subpage note when no link was selected.
C7_FetchesAndParts ==
    pc = "aggregated" =>
        /\ fetched = <<url, url>> \o Targets
        /\ result[1].kind = "landing"
        /\ result[1].url = url
        /\ IF links = <<>>
           THEN Len(result) = 2 /\ result[2].kind = "nolinks"
           ELSE /\ Len(result) = Len(links) + 1
                /\ \A i \in 1..Len(links) :
                        /\ result[i + 1].kind \in {"page", "error"}
                        /\ result[i + 1].url = Targets[i]

\* a returned aggregate over two selected links
C7_Witness ==
    /\ pc = "aggregated"
    /\ Len(links) = 2
    /\ Len(fetched) = 4
    /\ result[2].kind = "page"

\* the steps from the loop of get_all_website_details to the display
Onward ==
    \/ LoopStep
    \/ LoopExit
    \/ BuildPrompt
    \/ BrochureChat
    \/ DisplayWhole
    \/ StreamStart
    \/ StreamEnd

AnchorCalls == {"landing_fetch", "selector_fetch", "brochure_chat", "brochure_stream"}

\* C8: a failed landing-page fetch or brochure call ends the operation with
\* that exception; after a failed landing-page fetch there is no link
\* selection, sub-page fetch, brochure call or display; a failed sub-page
\* fetch never ends the operation nor stops it before the brochure call and
\* the display.
C8_FatalAnchors ==
    /\ \A i \in 1..Len(events) :
            (events[i].call \in AnchorCalls /\ ~events[i].ok)
                => (pc = "raised" /\ cause = events[i].call /\ i = Len(events))
    /\ (pc = "raised" /\ cause \in {"landing_fetch", "selector_fetch"}) =>
            /\ \A i \in 1..Len(events) : events[i].call \in {"landing_fetch", "selector_fetch"}
            /\ \A i \in 1..Len(fetched) : fetched[i] = url
            /\ shown = <<>>
    /\ pc = "raised" => cause # "sub_fetch"
    /\ pc = "done" => HasEvent("brochure_chat", TRUE) /\ HasEvent("display", TRUE)
    /\ (HasEvent("sub_fetch", FALSE) /\ pc \notin {"done", "raised"}) => ENABLED Onward

\* a brochure displayed after a sub-page fetch had failed
C8_Witness ==
    /\ pc = "done"
    /\ HasEvent("sub_fetch", FALSE)
    /\ HasEvent("display", TRUE)

\* C9: a selected link that opens with no scheme and colon is resolved against
\* the root before it is fetched, one that opens with a scheme is fetched as
\* it is, and the section or note names the URL fetched.
C9_RelativeResolved ==
    InOrPastLoop =>
        \A i \in 1..(Len(fetched) - 2) :
            /\ fetched[i + 2] = IF HasScheme(links[i].s) THEN links[i].s
                                ELSE urljoin(url, links[i].s)
            /\ result[i + 1].url = fetched[i + 2]

\* C10: at every display update no text shown holds a triple backtick or the
\* word markdown.
C10_NeverShown ==
    \A k \in 1..Len(shown) :
        ~Contains(shown[k], Fence) /\ ~Contains(shown[k], MarkdownWord)

====
